---- MODULE Spec2Model ----
(***************************************************************************)
(* One invocation of the Todoist command-line tool (todoist_cli.py).       *)
(*                                                                         *)
(* The process reads TODOIST_API_KEY and sys.argv, dispatches to one       *)
(* handler, and the handler talks to the remote service through the SDK    *)
(* client.  The remote service is the environment: every remote call       *)
(* either raises or returns a value chosen by the service, and a paginated *)
(* listing is served one page per request, lazily, as the handler's        *)
(* for-loop asks for it.                                                   *)
(*                                                                         *)
(* Optional values (Python None): <<>> is None and <<v>> is the value v.   *)
(* Project names and the --project filter are sequences of one-character   *)
(* strings so that str.lower() is a real conversion.                       *)
(***************************************************************************)
EXTENDS Integers, Sequences, FiniteSets, TLC

VARIABLES
    key,          \* os.environ.get('TODOIST_API_KEY')
    pc,           \* position of the process
    func,         \* args.func, the handler chosen by the dispatcher
    args,         \* the parsed argparse.Namespace
    given,        \* the option names that appeared on the command line
    api,          \* TRUE once TodoistAPI(...) has been constructed
    task_params,  \* list_tasks: keyword arguments of api.get_tasks
    all_tasks,    \* list_tasks: accumulated tasks
    all_projects, \* list_projects: accumulated projects
    seen,         \* names of the projects served to get_project_id_by_name
    more_projects, \* the project listing has a further page on the remote
    more_tasks,   \* the task listing has a further page on the remote
    calls,        \* log of the remote requests issued, in order
    out,          \* lines printed, in order
    exit_status   \* process exit status, -1 while running

vars == <<key, pc, func, args, given, api, task_params, all_tasks,
          all_projects, seen, more_projects, more_tasks, calls, out,
          exit_status>>

-----------------------------------------------------------------------------
(* Bounds of the remote data. *)
MaxProjects == 3
MaxTasks == 2

None == <<>>
Some(v) == <<v>>

Line(m) == [line |-> m]

-----------------------------------------------------------------------------
(* Strings *)

LowerChar(c) ==
    CASE c = "A" -> "a"
      [] c = "B" -> "b"
      [] c = "C" -> "c"
      [] OTHER -> c

\* str.lower()
lower(s) == [i \in 1..Len(s) |-> LowerChar(s[i])]

\* Python truthiness of an Optional[str] given as an option value
TruthyStr(o) == o # None /\ o[1] # ""
\* Python truthiness of an Optional[str] held as a character sequence
TruthyName(o) == o # None /\ o[1] # <<>>
\* Python truthiness of an Optional[int]
TruthyInt(o) == o # None /\ o[1] # 0

-----------------------------------------------------------------------------
(* The remote's data *)

ProjectNames == {<<"a">>, <<"A", "b">>}
ProjectFilters == {<<>>, <<"a">>, <<"a", "B">>, <<"c">>}
PriorityCodes == 0..5
ReturnedPriorities == -2..7
DueStrings == {"d"}
TaskIds == {"", "t1"}

\* the pages of n projects the remote can serve after `from` projects; a
\* project's id is a non-empty string, modelled by the project's position in
\* the listing
ProjectPages(from, n) ==
    { [i \in 1..n |-> [id |-> from + i, name |-> f[i][1], parent_id |-> f[i][2]]] :
        f \in [1..n -> ProjectNames \X {None, Some(1)}] }

\* the pages of n tasks the remote can serve after `from` tasks
TaskPages(from, n) ==
    { [i \in 1..n |-> [id |-> from + i, content |-> "c",
                       priority |-> f[i][1], due |-> f[i][2]]] :
        f \in [1..n -> PriorityCodes \X ({None} \cup {Some(d) : d \in DueStrings})] }

\* a task object returned by add_task / get_task
ReturnedTasks ==
    [id : {"t1"}, content : {"c"}, priority : ReturnedPriorities,
     due : {None} \cup {Some(d) : d \in DueStrings},
     created_at : {"ts"}, description : {None, Some(""), Some("text")},
     labels : {<<>>, <<"l1", "l2">>}]

-----------------------------------------------------------------------------
(* Formatters *)

\* mutant: the inversion is lost, code 1 is shown as P1
format_priority_Uninverted(priority) ==
    CASE priority = 1 -> "P1 (High)"
      [] priority = 2 -> "P2"
      [] priority = 3 -> "P3"
      [] priority = 4 -> "P4 (Normal)"
      [] OTHER -> "P4"

\* format_priority: mapping.get(priority, "P4")
format_priority(priority) ==
    CASE priority = 4 -> "P1 (High)"
      [] priority = 3 -> "P2"
      [] priority = 2 -> "P3"
      [] priority = 1 -> "P4 (Normal)"
      [] OTHER -> "P4"

\* a table row: the four columns in order (id, priority, due, content)
format_task_row(task_id, priority, due, content) ==
    [line |-> "row", cols |-> <<task_id, priority, due, content>>]

-----------------------------------------------------------------------------
Init ==
    /\ key \in {None, Some(""), Some("k")}
    /\ pc = "main"
    /\ func = None
    /\ args = None
    /\ given = {}
    /\ api = FALSE
    /\ task_params = <<>>
    /\ all_tasks = <<>>
    /\ all_projects = <<>>
    /\ seen = <<>>
    /\ more_projects = FALSE
    /\ more_tasks = FALSE
    /\ calls = <<>>
    /\ out = <<>>
    /\ exit_status = -1

\* sys.exit(code) after printing the given lines
Exit(lines, code) ==
    /\ out' = out \o lines
    /\ exit_status' = code
    /\ pc' = "done"

locals == <<task_params, all_tasks, all_projects, seen, more_projects, more_tasks>>

-----------------------------------------------------------------------------
(* Command line *)

\* subcommand words and aliases registered with the subparsers
HandlerOf(word) ==
    CASE word \in {"tasks", "ls", "list"} -> Some("list_tasks")
      [] word \in {"projects", "proj"} -> Some("list_projects")
      [] word \in {"add", "new", "create"} -> Some("add_task")
      [] word \in {"complete", "done", "close", "finish"} -> Some("complete_task")
      [] word \in {"delete", "rm", "remove"} -> Some("delete_task")
      [] word \in {"get", "show", "view"} -> Some("get_task")
      [] word \in {"update", "edit", "modify"} -> Some("update_task")
      [] OTHER -> None

CommandWords ==
    {"tasks", "ls", "list", "projects", "proj", "add", "new", "create",
     "complete", "done", "close", "finish", "delete", "rm", "remove",
     "get", "show", "view", "update", "edit", "modify"}

OptText(S) == {None} \cup {Some(x) : x \in S}

NoOptions ==
    [content |-> None, due |-> None, priority |-> None, project |-> None,
     project_id |-> None, task_id |-> None]

\* the option values a command line can carry for each handler
OptionsOf(h) ==
    CASE h = "list_tasks" ->
            {[NoOptions EXCEPT !.project = p] : p \in OptText(ProjectFilters)}
      [] h = "list_projects" -> {NoOptions}
      [] h = "add_task" ->
            {[NoOptions EXCEPT !.content = c, !.due = d, !.priority = p,
                               !.project_id = j] :
                c \in OptText({"", "x"}), d \in OptText({"", "d"}),
                p \in OptText(PriorityCodes), j \in OptText({"", "p"})}
      [] h = "update_task" ->
            {[NoOptions EXCEPT !.task_id = Some("t1"), !.content = c, !.due = d,
                               !.priority = p] :
                c \in OptText({"", "x"}), d \in OptText({"", "d"}),
                p \in OptText(PriorityCodes)}
      [] OTHER -> {[NoOptions EXCEPT !.task_id = t] : t \in OptText(TaskIds)}

\* parser.parse_args() rejects the command line (usage error, exit status 2)
UsageError(h, o) ==
    \/ h = None
    \/ h = Some("add_task") /\ o.content = None
    \/ h \in {Some("complete_task"), Some("delete_task"), Some("get_task"),
              Some("update_task")} /\ o.task_id = None
    \/ o.priority # None /\ o.priority[1] \notin 1..4

\* mutant: add's --priority defaults to 4
Namespace_DefaultHigh(h, o) ==
    IF h = "add_task" /\ o.priority = None
    THEN [o EXCEPT !.priority = Some(4)]
    ELSE o

\* the Namespace parse_args() builds: add's --priority defaults to 1
Namespace(h, o) ==
    IF h = "add_task" /\ o.priority = None
    THEN [o EXCEPT !.priority = Some(1)]
    ELSE o

\* main() with len(sys.argv) == 1, with -h, or with no subcommand:
\* help is printed and the status is 0
main_help ==
    /\ pc = "main"
    /\ \E how \in {"no arguments", "-h", "no subcommand"} :
          Exit(<<[line |-> "help", how |-> how]>>, 0)
    /\ UNCHANGED <<key, func, args, given, api, locals, calls>>

\* main() with a subcommand word: parse, then call args.func(args)
main ==
    /\ pc = "main"
    /\ \E word \in CommandWords \cup {"bogus"} :
         LET h == HandlerOf(word) IN
         \E o \in (IF h = None THEN {NoOptions} ELSE OptionsOf(h[1])) :
            IF UsageError(h, o)
            THEN /\ Exit(<<Line("usage error")>>, 2)
                 /\ UNCHANGED <<func, args, given>>
            ELSE /\ func' = h
                 /\ args' = Namespace(h[1], o)
                 /\ given' = {f \in DOMAIN o : o[f] # None}
                 /\ pc' = "get_api"
                 /\ UNCHANGED <<out, exit_status>>
    /\ UNCHANGED <<key, api, locals, calls>>

-----------------------------------------------------------------------------
(* Credential and client *)

\* mutant: only an unset variable counts, an empty one is accepted
KeyMissing_UnsetOnly(api_key) == api_key = None

\* get_api_key: `if not api_key`
KeyMissing(api_key) == ~TruthyStr(api_key)

\* get_api(): get_api_key() exits 1 when the key is unset or empty,
\* otherwise the client handle is constructed and the handler's try block
\* is entered
get_api ==
    /\ pc = "get_api"
    /\ IF KeyMissing(key)
       THEN /\ Exit(<<Line("Error: TODOIST_API_KEY environment variable not set."),
                      Line("Set it with: export TODOIST_API_KEY='your-api-key'"),
                      Line("Or add to ~/.bashrc for persistence.")>>, 1)
            /\ UNCHANGED api
       ELSE /\ api' = TRUE
            /\ pc' = func[1]
            /\ UNCHANGED <<out, exit_status>>
    /\ UNCHANGED <<key, func, args, given, locals, calls>>

-----------------------------------------------------------------------------
(* Remote calls *)

\* one remote request, how it ended ("ok", "false" or "raise") and what it
\* returned, if anything: a task object, or the length of a page
Call(op, params, result, value) ==
    [op |-> op, params |-> params, result |-> result, value |-> value]

\* mutant: the message is printed but the status stays 0
Fail_StatusZero(message) == Exit(<<Line(message)>>, 0)

\* mutant: the message is printed and the handler carries on
Fail_Continues(message) ==
    /\ out' = Append(out, Line(message))
    /\ UNCHANGED <<pc, exit_status>>

\* the except clause of a handler: print the message and sys.exit(1)
Fail(message) == Exit(<<Line(message)>>, 1)

\* returning from the handler: main() returns and the status is 0
Return(lines) == Exit(lines, 0)

\* the sizes and has-more flags of the next page of a listing that has
\* served `n` of at most `max` items; an empty page is the last page
NextPages(n, max) ==
    {sz \in (0..(max - n)) \X BOOLEAN :
        /\ sz[2] => sz[1] > 0
        /\ sz[2] => n + sz[1] < max}

-----------------------------------------------------------------------------
(* tasks *)

\* mutant: the loop does not return at the first hit, the last hit wins
FirstMatch_Last(page, project_name) ==
    LET hits == {i \in 1..Len(page) : lower(page[i].name) = lower(project_name)}
    IN  IF hits = {} THEN None
        ELSE Some(page[CHOOSE i \in hits : \A j \in hits : j <= i].id)

\* the first project of the page whose lowered name equals the lowered
\* filter
FirstMatch(page, project_name) ==
    LET hits == {i \in 1..Len(page) : lower(page[i].name) = lower(project_name)}
    IN  IF hits = {} THEN None
        ELSE Some(page[CHOOSE i \in hits : \A j \in hits : i <= j].id)

\* list_tasks up to the project lookup
list_tasks ==
    /\ pc = "list_tasks"
    /\ IF TruthyName(args.project)
       THEN pc' = "get_project_id_by_name"
       ELSE pc' = "get_tasks"
    /\ UNCHANGED <<key, func, args, given, api, locals, calls, out, exit_status>>

\* mutant: an unknown project name is treated as an error
ProjectNotFound_Fatal ==
    /\ out' = Append(out, Line("Error fetching tasks"))
    /\ exit_status' = 1
    /\ pc' = "done"

\* list_tasks when the lookup returned None: warn and go on without a filter
ProjectNotFound ==
    /\ out' = Append(out, Line("Warning: Project not found. Showing all tasks."))
    /\ pc' = "get_tasks"
    /\ UNCHANGED exit_status

\* one iteration of `for page in api.get_projects()` in
\* get_project_id_by_name, and on its return the rest of the
\* `if args.project` block of list_tasks
get_project_id_by_name ==
    /\ pc = "get_project_id_by_name"
    /\ \/ /\ calls' = Append(calls, Call("get_projects", <<>>, "raise", None))
          /\ Fail("Error fetching tasks")
          /\ UNCHANGED <<task_params, seen, more_projects>>
       \/ \E sz \in NextPages(Len(seen), MaxProjects) :
          \E page \in ProjectPages(Len(seen), sz[1]) :
             LET project_id == FirstMatch(page, args.project[1]) IN
             /\ calls' = Append(calls, Call("get_projects", <<>>, "ok", Some(Len(page))))
             /\ seen' = seen \o [i \in 1..Len(page) |-> page[i].name]
             /\ more_projects' = sz[2]
             /\ IF project_id # None
                THEN /\ task_params' = [k \in {"project_id"} |-> project_id[1]]
                     /\ pc' = "get_tasks"
                     /\ UNCHANGED <<out, exit_status>>
                ELSE IF sz[2]
                THEN UNCHANGED <<task_params, pc, out, exit_status>>
                ELSE /\ ProjectNotFound
                     /\ UNCHANGED task_params
    /\ UNCHANGED <<key, func, args, given, api, all_tasks, all_projects, more_tasks>>

TaskRow(task) ==
    format_task_row(task.id, format_priority(task.priority),
                    IF task.due # None THEN task.due[1] ELSE "No Date",
                    task.content)

\* what list_tasks prints once all_tasks is complete
TaskTable(tasks) ==
    IF tasks = <<>>
    THEN <<Line("No active tasks found.")>>
    ELSE <<format_task_row("ID", "Priority", "Due", "Content"), Line("----")>>
         \o [i \in 1..Len(tasks) |-> TaskRow(tasks[i])]

\* one iteration of `for page in api.get_tasks(**task_params)`, and after
\* the last page the printing of the table
get_tasks ==
    /\ pc = "get_tasks"
    /\ \/ /\ calls' = Append(calls, Call("get_tasks", task_params, "raise", None))
          /\ Fail("Error fetching tasks")
          /\ UNCHANGED <<all_tasks, more_tasks>>
       \/ \E sz \in NextPages(Len(all_tasks), MaxTasks) :
          \E page \in TaskPages(Len(all_tasks), sz[1]) :
             /\ calls' = Append(calls, Call("get_tasks", task_params, "ok", Some(Len(page))))
             /\ all_tasks' = all_tasks \o page
             /\ more_tasks' = sz[2]
             /\ IF sz[2]
                THEN UNCHANGED <<pc, out, exit_status>>
                ELSE Return(TaskTable(all_tasks'))
    /\ UNCHANGED <<key, func, args, given, api, task_params, all_projects, seen,
                   more_projects>>

-----------------------------------------------------------------------------
(* projects *)

ProjectRow(proj) ==
    [line |-> "row",
     cols |-> <<proj.id, IF proj.parent_id # None THEN "  " ELSE "", proj.name>>]

ProjectTable(projects) ==
    IF projects = <<>>
    THEN <<Line("No projects found.")>>
    ELSE <<[line |-> "row", cols |-> <<"ID", "", "Name">>], Line("----")>>
         \o [i \in 1..Len(projects) |-> ProjectRow(projects[i])]

\* one iteration of `for page in api.get_projects()` in list_projects, and
\* after the last page the printing of the table
list_projects ==
    /\ pc = "list_projects"
    /\ \/ /\ calls' = Append(calls, Call("get_projects", <<>>, "raise", None))
          /\ Fail("Error fetching projects")
          /\ UNCHANGED <<all_projects, more_projects>>
       \/ \E sz \in NextPages(Len(all_projects), MaxProjects) :
          \E page \in ProjectPages(Len(all_projects), sz[1]) :
             /\ calls' = Append(calls, Call("get_projects", <<>>, "ok", Some(Len(page))))
             /\ all_projects' = all_projects \o page
             /\ more_projects' = sz[2]
             /\ IF sz[2]
                THEN UNCHANGED <<pc, out, exit_status>>
                ELSE Return(ProjectTable(all_projects'))
    /\ UNCHANGED <<key, func, args, given, api, task_params, all_tasks, seen,
                   more_tasks>>

-----------------------------------------------------------------------------
(* add *)

\* the keyword arguments add_task builds for api.add_task
AddParams(a) ==
    [k \in {"content", "priority"}
           \cup (IF TruthyStr(a.due) THEN {"due_string"} ELSE {})
           \cup (IF TruthyStr(a.project_id) THEN {"project_id"} ELSE {}) |->
        CASE k = "content" -> a.content[1]
          [] k = "priority" -> a.priority[1]
          [] k = "due_string" -> a.due[1]
          [] k = "project_id" -> a.project_id[1]]

AddReport(task) ==
    <<Line("Task created successfully!"),
      [line |-> "ID", val |-> task.id],
      [line |-> "Content", val |-> task.content]>>
    \o (IF task.due # None THEN <<[line |-> "Due", val |-> task.due[1]]>> ELSE <<>>)
    \o <<[line |-> "Priority", val |-> format_priority(task.priority)]>>

add_task ==
    /\ pc = "add_task"
    /\ \/ /\ calls' = Append(calls, Call("add_task", AddParams(args), "raise", None))
          /\ Fail("Error creating task")
       \/ \E task \in ReturnedTasks :
             /\ calls' = Append(calls, Call("add_task", AddParams(args), "ok", Some(task)))
             /\ Return(AddReport(task))
    /\ UNCHANGED <<key, func, args, given, api, locals>>

-----------------------------------------------------------------------------
(* complete, delete *)

\* mutant: the boolean result is not looked at
OneShot_IgnoresResult(op, confirmation, refusal, failure) ==
    \/ /\ calls' = Append(calls, Call(op, [k \in {"task_id"} |-> args.task_id[1]], "raise", None))
       /\ Exit(<<Line(failure)>>, 1)
    \/ \E is_success \in BOOLEAN :
          /\ calls' = Append(calls, Call(op, [k \in {"task_id"} |-> args.task_id[1]],
                                         IF is_success THEN "ok" ELSE "false", None))
          /\ Exit(<<Line(confirmation)>>, 0)

\* the shared shape of complete_task and delete_task: one remote call whose
\* boolean result decides between the confirmation and the error
OneShot(op, confirmation, refusal, failure) ==
    \/ /\ calls' = Append(calls, Call(op, [k \in {"task_id"} |-> args.task_id[1]], "raise", None))
       /\ Fail(failure)
    \/ \E is_success \in BOOLEAN :
          /\ calls' = Append(calls, Call(op, [k \in {"task_id"} |-> args.task_id[1]],
                                         IF is_success THEN "ok" ELSE "false", None))
          /\ IF is_success
             THEN Return(<<Line(confirmation)>>)
             ELSE Fail(refusal)

complete_task ==
    /\ pc = "complete_task"
    /\ OneShot("complete_task", "Task marked as completed.",
               "Error: Could not complete task.", "Error completing task")
    /\ UNCHANGED <<key, func, args, given, api, locals>>

delete_task ==
    /\ pc = "delete_task"
    /\ OneShot("delete_task", "Task deleted.",
               "Error: Could not delete task.", "Error deleting task")
    /\ UNCHANGED <<key, func, args, given, api, locals>>

-----------------------------------------------------------------------------
(* get *)

TaskDetails(task) ==
    <<Line("Task Details"), Line("----"),
      [line |-> "ID", val |-> task.id],
      [line |-> "Content", val |-> task.content],
      [line |-> "Priority", val |-> format_priority(task.priority)],
      [line |-> "Due", val |-> IF task.due # None THEN task.due[1] ELSE "No date"],
      [line |-> "Created", val |-> task.created_at]>>
    \o (IF TruthyStr(task.description)
        THEN <<[line |-> "Description", val |-> task.description[1]]>> ELSE <<>>)
    \o (IF task.labels # <<>>
        THEN <<[line |-> "Labels", val |-> task.labels]>> ELSE <<>>)

get_task ==
    /\ pc = "get_task"
    /\ \/ /\ calls' = Append(calls, Call("get_task", [k \in {"task_id"} |-> args.task_id[1]], "raise", None))
          /\ Fail("Error fetching task")
       \/ \E task \in ReturnedTasks :
             /\ calls' = Append(calls, Call("get_task", [k \in {"task_id"} |-> args.task_id[1]], "ok", Some(task)))
             /\ Return(TaskDetails(task))
    /\ UNCHANGED <<key, func, args, given, api, locals>>

-----------------------------------------------------------------------------
(* update *)

\* mutant: the priority entry is written unconditionally
UpdateParams_PriorityAlways(a) ==
    [k \in (IF TruthyStr(a.content) THEN {"content"} ELSE {})
           \cup (IF TruthyStr(a.due) THEN {"due_string"} ELSE {})
           \cup {"priority"} |->
        CASE k = "content" -> a.content[1]
          [] k = "due_string" -> a.due[1]
          [] k = "priority" -> IF a.priority = None THEN 0 ELSE a.priority[1]]

\* the dictionary update_task builds from the options that are truthy
UpdateParams(a) ==
    [k \in (IF TruthyStr(a.content) THEN {"content"} ELSE {})
           \cup (IF TruthyStr(a.due) THEN {"due_string"} ELSE {})
           \cup (IF TruthyInt(a.priority) THEN {"priority"} ELSE {}) |->
        CASE k = "content" -> a.content[1]
          [] k = "due_string" -> a.due[1]
          [] k = "priority" -> a.priority[1]]

update_task ==
    /\ pc = "update_task"
    /\ LET update_params == UpdateParams(args) IN
       IF DOMAIN update_params = {}
       THEN /\ Exit(<<Line("Error: No updates specified. Use --content, --due, or --priority.")>>, 1)
            /\ UNCHANGED calls
       ELSE \/ /\ calls' = Append(calls, Call("update_task", update_params, "raise", None))
               /\ Fail("Error updating task")
            \/ \E is_success \in BOOLEAN :
                  /\ calls' = Append(calls, Call("update_task", update_params,
                                                 IF is_success THEN "ok" ELSE "false", None))
                  /\ IF is_success
                     THEN Return(<<Line("Task updated successfully.")>>)
                     ELSE Fail("Error: Could not update task.")
    /\ UNCHANGED <<key, func, args, given, api, locals>>

-----------------------------------------------------------------------------
Next ==
    \/ main_help
    \/ main
    \/ get_api
    \/ list_tasks
    \/ get_project_id_by_name
    \/ get_tasks
    \/ list_projects
    \/ add_task
    \/ complete_task
    \/ delete_task
    \/ get_task
    \/ update_task

Spec == Init /\ [][Next]_vars

-----------------------------------------------------------------------------
(* Vocabulary of the properties *)

Done == pc = "done"
Running(h) == func = Some(h)
CredentialPresent == key # None /\ key[1] # ""
Printed(m) == \E i \in DOMAIN out : out[i].line = m
CallsOf(op) == {i \in DOMAIN calls : calls[i].op = op}
FailedCalls == {i \in DOMAIN calls : calls[i].result # "ok"}
UpdateFields == {"content", "due", "priority"}
NoUpdatesMessage == "Error: No updates specified. Use --content, --due, or --priority."
CredentialMessage == "Error: TODOIST_API_KEY environment variable not set."
WarningMessage == "Warning: Project not found. Showing all tasks."
ErrorMessages ==
    {"Error fetching tasks", "Error fetching projects", "Error creating task",
     "Error completing task", "Error: Could not complete task.",
     "Error deleting task", "Error: Could not delete task.",
     "Error fetching task", "Error updating task",
     "Error: Could not update task.", NoUpdatesMessage, CredentialMessage}
ErrorPrinted == \E m \in ErrorMessages : Printed(m)

-----------------------------------------------------------------------------
(* C1 *)

\* C1, as stated: every update invocation with none of content, due and
\* priority supplied prints the 'no updates specified' error, exits
\* non-zero, and issues no remote call.
C1_AsStated ==
    (Running("update_task") /\ given \cap UpdateFields = {}) =>
        /\ calls = <<>>
        /\ Done => (exit_status # 0 /\ Printed(NoUpdatesMessage))

\* C1, amended: every update invocation with none of content, due and
\* priority supplied exits non-zero and issues no remote call; it prints the
\* 'no updates specified' error when the credential is present, and the
\* credential error (not the 'no updates' error) when it is missing.
C1_NoFieldsNoCall ==
    (Running("update_task") /\ given \cap UpdateFields = {}) =>
        /\ calls = <<>>
        /\ Done =>
            /\ exit_status # 0
            /\ CredentialPresent <=> Printed(NoUpdatesMessage)
            /\ ~CredentialPresent <=> Printed(CredentialMessage)

C1_Witness ==
    /\ Done /\ Running("update_task") /\ given \cap UpdateFields = {}
    /\ CredentialPresent /\ api
    /\ Printed(NoUpdatesMessage) /\ exit_status = 1 /\ calls = <<>>

-----------------------------------------------------------------------------
(* C2 *)

\* C2: in a run of any command whose TODOIST_API_KEY is unset or empty, no
\* client handle is ever constructed, no remote call is ever issued, no
\* handler body is entered, and the run ends with a non-zero status.
C2_MissingKeyIsFatal ==
    (func # None /\ ~CredentialPresent) =>
        /\ ~api
        /\ calls = <<>>
        /\ pc \in {"get_api", "done"}
        /\ Done => (exit_status # 0 /\ Printed(CredentialMessage))

C2_Witness ==
    /\ Done /\ Running("complete_task") /\ key = Some("")
    /\ exit_status = 1 /\ ~api /\ calls = <<>>

-----------------------------------------------------------------------------
(* C3 *)

\* the remote showed every project page and no project name equals the
\* non-empty filter case-insensitively
LookupMissed ==
    /\ Running("list_tasks")
    /\ TruthyName(args.project)
    /\ pc \in {"get_tasks", "done"}
    /\ CallsOf("get_projects") # {}
    /\ \A i \in CallsOf("get_projects") : calls[i].result = "ok"
    /\ ~more_projects
    /\ \A i \in DOMAIN seen : lower(seen[i]) # lower(args.project[1])

-----------------------------------------------------------------------------
(* C4 *)

Confirmation ==
    IF Running("complete_task") THEN "Task marked as completed." ELSE "Task deleted."

\* C4: for complete and delete with a credential present, exactly one
\* remote call is made; the confirmation is printed and the status is 0 if
\* and only if that call returned success, and when it returned non-success
\* or raised an error message is printed, the status is non-zero and the
\* confirmation is not printed.
C4_ConfirmIffSuccess ==
    ((Running("complete_task") \/ Running("delete_task")) /\ CredentialPresent) =>
        /\ ~Done => (calls = <<>> /\ out = <<>>)
        /\ Done =>
            /\ Len(calls) = 1
            /\ calls[1].op = func[1]
            /\ calls[1].params = [k \in {"task_id"} |-> args.task_id[1]]
            /\ (calls[1].result = "ok") <=> Printed(Confirmation)
            /\ (calls[1].result = "ok") <=> (exit_status = 0)
            /\ (calls[1].result # "ok") =>
                  (ErrorPrinted /\ exit_status # 0 /\ ~Printed(Confirmation))

C4_Witness ==
    /\ Done /\ Running("delete_task") /\ CredentialPresent
    /\ calls[1].result = "false" /\ exit_status = 1
    /\ Printed("Error: Could not delete task.")

-----------------------------------------------------------------------------
(* C5 *)

\* the command ran to its end: the credential was present, at least one
\* remote call was made and every remote call succeeded
CommandSucceeded ==
    /\ func # None /\ CredentialPresent
    /\ calls # <<>> /\ FailedCalls = {}

-----------------------------------------------------------------------------
(* C6 *)

MutatingOps == {"add_task", "complete_task", "delete_task", "update_task"}

\* C6: a failed remote call (raised, or returned non-success) is the last
\* remote call of the invocation and the process has then ended with a
\* non-zero status; each mutating operation is called at most once.
C6_NoRetries ==
    /\ \A i \in FailedCalls : i = Len(calls) /\ Done /\ exit_status # 0
    /\ \A op \in MutatingOps : Cardinality(CallsOf(op)) <= 1
    /\ Cardinality({i \in DOMAIN calls : calls[i].op \in MutatingOps}) <= 1

C6_Witness ==
    /\ Done /\ exit_status = 1
    /\ Len(calls) >= 3
    /\ calls[Len(calls)].op = "get_tasks" /\ calls[Len(calls)].result = "raise"
    /\ calls[Len(calls) - 1].op = "get_tasks"

-----------------------------------------------------------------------------
(* C7 *)

RowsPrinted == {i \in DOMAIN out : out[i].line = "row"}
MatchUsed == Running("list_tasks") /\ "project_id" \in DOMAIN task_params
Matches == {i \in DOMAIN seen : lower(seen[i]) = lower(args.project[1])}
\* the length of the last project page fetched
LastProjectPage ==
    LET fetched == {i \in CallsOf("get_projects") : calls[i].result = "ok"}
    IN  calls[CHOOSE i \in fetched : \A j \in fetched : j <= i].value[1]

-----------------------------------------------------------------------------
(* C8 *)

\* the table of section 4.4
PriorityLabel(code) ==
    IF code = 4 THEN "P1 (High)"
    ELSE IF code = 3 THEN "P2"
    ELSE IF code = 2 THEN "P3"
    ELSE IF code = 1 THEN "P4 (Normal)"
    ELSE "P4"

\* C8: every priority shown by tasks, add and get is the label of the
\* table for the task's priority code: 4 "P1 (High)", 3 "P2", 2 "P3",
\* 1 "P4 (Normal)", any other integer "P4".
C8_PriorityLabels ==
    /\ (Running("list_tasks") /\ RowsPrinted # {}) =>
          \E base \in 0..1 :
             /\ base + 2 + Len(all_tasks) = Len(out)
             /\ \A i \in DOMAIN all_tasks :
                   out[base + 2 + i].cols[2] = PriorityLabel(all_tasks[i].priority)
    /\ ((Running("add_task") \/ Running("get_task")) /\ Done /\ exit_status = 0) =>
          \E i \in DOMAIN out :
             /\ out[i].line = "Priority"
             /\ out[i].val = PriorityLabel(calls[1].value[1].priority)
    /\ \A i \in DOMAIN out :
          out[i].line = "Priority" =>
             out[i].val = PriorityLabel(calls[1].value[1].priority)

C8_Witness ==
    /\ Done /\ Running("list_tasks")
    /\ Len(all_tasks) = 2
    /\ all_tasks[1].priority = 4 /\ all_tasks[2].priority = 5
    /\ out[Len(out) - 1].cols[2] = "P1 (High)" /\ out[Len(out)].cols[2] = "P4"

-----------------------------------------------------------------------------
(* C9 *)

\* what C9 says of the task-creation request
AddRequestAsClaimed ==
    /\ Len(calls) = 1
    /\ calls[1].op = "add_task"
    /\ calls[1].params["content"] = args.content[1]
    /\ calls[1].params["priority"] =
          (IF "priority" \in given THEN args.priority[1] ELSE 1)
    /\ "due_string" \in DOMAIN calls[1].params =>
          ("due" \in given /\ calls[1].params["due_string"] = args.due[1])
    /\ "project_id" \in DOMAIN calls[1].params =>
          ("project_id" \in given /\ calls[1].params["project_id"] = args.project_id[1])
    /\ given = {"content"} => DOMAIN calls[1].params = {"content", "priority"}

\* C9, as stated: the add command issues exactly one task-creation call with
\* the supplied priority (1 when omitted), a due string only when --due was
\* supplied and a project id only when --project-id was supplied.
C9_AsStated ==
    (Running("add_task") /\ Done) => AddRequestAsClaimed

\* C9, amended: when the credential is present the add command issues
\* exactly one task-creation call with the supplied priority (1 when
\* omitted), a due string only when --due was supplied and a project id only
\* when --project-id was supplied; when the credential is missing it issues
\* none.
C9_AddRequest ==
    Running("add_task") =>
        /\ (Done /\ CredentialPresent) => AddRequestAsClaimed
        /\ ~CredentialPresent => calls = <<>>
        /\ ~Done => calls = <<>>

C9_Witness ==
    /\ Running("add_task") /\ Done /\ exit_status = 0
    /\ given = {"content"}
    /\ calls[1].params = [k \in {"content", "priority"} |->
                            IF k = "content" THEN "x" ELSE 1]
    /\ \E i \in DOMAIN out :
          out[i].line = "Priority" /\ out[i].val = "P4 (Normal)"

-----------------------------------------------------------------------------
(* C10 *)

\* the request C10 expects: one field per option supplied, with its value
SuppliedUpdate ==
    [k \in {"content" : x \in given \cap {"content"}}
           \cup {"due_string" : x \in given \cap {"due"}}
           \cup {"priority" : x \in given \cap {"priority"}} |->
        CASE k = "content" -> args.content[1]
          [] k = "due_string" -> args.due[1]
          [] k = "priority" -> args.priority[1]]

\* C10: with the credential present, an update given at least one of
\* --content, --due, --priority (any values, the empty string included)
\* calls the remote update exactly once, with exactly the supplied fields
\* and their supplied values.
C10_UpdateSendsSupplied ==
    (Running("update_task") /\ Done /\ CredentialPresent
        /\ given \cap UpdateFields # {}) =>
        /\ Len(calls) = 1
        /\ calls[1].op = "update_task"
        /\ calls[1].params = SuppliedUpdate

====
